---- MODULE Spec2Model ----
(***************************************************************************)
(* Verification model of pyshgp's program representation and reproduction  *)
(* engine:                                                                 *)
(*   - CodeBlock navigation and point editing   (pyshgp/push/atoms.py)     *)
(*   - alternation, uniform close mutation      (pyshgp/gp/operators.py)   *)
(*   - the reproduction scheduler `genetics`    (pyshgp/gp/operators.py)   *)
(* Each part has its own specification over the shared variables; the      *)
(* variables of the other parts stay at their idle values.                 *)
(***************************************************************************)
EXTENDS Integers, Sequences, FiniteSets

VARIABLES
    \* ---- CodeBlock (atoms.py) ----
    tree,        \* the CodeBlock the program currently holds
    op,          \* last CodeBlock method called
    recv,        \* receiver of the last call (persistent, never modified)
    arg_code,    \* `code` argument of the last call
    arg_index,   \* `ndx` / `index` argument of the last call
    ret,         \* Atom returned by the last call (None when nothing is returned)
    ret_n,       \* int returned by the last call (size, depth)
    \* ---- alternation (operators.py) ----
    apc,               \* position in alternation: "idle", "start", "loop", "done", "error"
    parent_1, parent_2,
    max_points, alternation_rate, alignment_deviation,
    first_parent_1,    \* outcome of the initial random.choice([True, False])
    use_parent_1, loop_times, i, resulting_genome,
    last_read,         \* <<index, length of the parent read>> of the latest copy
    \* ---- uniform close mutation (operators.py) ----
    cpc,               \* "idle", "run", "done"
    genome, close_marker, uniform_close_mutation_rate, close_increment_rate,
    new_genome,
    \* ---- genetics (operators.py) ----
    gpc,               \* "idle", "start", "partition", "dispatch", "sequential", "done", "error"
    population_size, probabilities, half_even, parallel_genetics, max_workers, ncpus,
    num_offspring_each_gen_op, aprox_num_individuals_per_job,
    keys_left, cur_op, gi, jobs_n, jobs_ops, offspring

atomVars == <<tree, op, recv, arg_code, arg_index, ret, ret_n>>
altVars  == <<apc, parent_1, parent_2, max_points, alternation_rate, alignment_deviation,
              first_parent_1, use_parent_1, loop_times, i, resulting_genome, last_read>>
closeVars == <<cpc, genome, close_marker, uniform_close_mutation_rate,
               close_increment_rate, new_genome>>
genVars  == <<gpc, population_size, probabilities, half_even, parallel_genetics, max_workers,
              ncpus, num_offspring_each_gen_op, aprox_num_individuals_per_job,
              keys_left, cur_op, gi, jobs_n, jobs_ops, offspring>>
vars == <<atomVars, altVars, closeVars, genVars>>

(***************************************************************************)
(* Bounds                                                                  *)
(***************************************************************************)
MaxSize == 4      \* largest CodeBlock size() built by insertion
MaxLen == 3       \* longest parent genome given to alternation
MaxGenes == 2     \* longest genome given to uniform_close_mutation
MaxCloses == 3    \* largest close_count of an input gene
MaxPop == 4       \* largest population_size besides the 100 of the documented scenario
MaxCpus == 4      \* largest pool.ncpus
MaxJobs == 12     \* cap on len(jobs_n) in the partition loop

(***************************************************************************)
(* Atoms.  An Atom is a record: a CodeBlock has blk = TRUE and its         *)
(* elements in els; every other Atom (Literal, InstructionMeta, Input) is  *)
(* a leaf identified by v.  None is Python's None.                         *)
(***************************************************************************)
Leaf(x) == [blk |-> FALSE, v |-> x, els |-> <<>>]
CodeBlock(s) == [blk |-> TRUE, v |-> 0, els |-> s]
None == [blk |-> FALSE, v |-> -1, els |-> <<>>]

RECURSIVE size(_), size_sum(_, _)
RECURSIVE depth_level(_, _), nested_items(_, _)
RECURSIVE code_at_point(_, _), code_at_point_loop(_, _, _)
RECURSIVE attempt_code_insert(_, _, _), attempt_code_insert_loop(_, _, _, _)

\* sum([... for el in self]) from element j on
size_sum(els, j) ==
    IF j > Len(els) THEN 0
    ELSE (IF els[j].blk THEN size(els[j]) + 1 ELSE 1) + size_sum(els, j + 1)

size(T) == size_sum(T.els, 1)

\* chain.from_iterable(s for s in i if isinstance(s, Sequence)): the elements
\* of the CodeBlocks among items, in order
nested_items(items, j) ==
    IF j > Len(items) THEN <<>>
    ELSE (IF items[j].blk THEN items[j].els ELSE <<>>) \o nested_items(items, j + 1)

\* one round of `for level in count()`: next(i) raises StopIteration when
\* the current level has no item, and the handler returns level
depth_level(items, level) ==
    IF Len(items) = 0 THEN level
    ELSE depth_level(nested_items(items, 1), level + 1)

\* depth counting only the levels below the block's own elements
depth_BelowTop(T) == depth_level(nested_items(T.els, 1), 0)

depth(T) == depth_level(T.els, 0)

\* code_at_point without its `if ndx == 0: return self`
code_at_point_NoSelf(T, ndx) == code_at_point_loop(T.els, 1, ndx)

\* the for loop of code_at_point from element j on, with counter n
code_at_point_loop(els, j, n) ==
    IF j > Len(els) THEN None
    ELSE LET el == els[j]
             n1 == n - 1
         IN  IF n1 = 0 THEN el
             ELSE IF el.blk
                  THEN LET next_depth == code_at_point(el, n1)
                       IN  IF next_depth # None THEN next_depth
                           ELSE code_at_point_loop(els, j + 1, n1 - size(el))
                  ELSE code_at_point_loop(els, j + 1, n1)

code_at_point(T, ndx) ==
    IF ndx = 0 THEN T ELSE code_at_point_loop(T.els, 1, ndx)

\* the for loop of _attempt_code_insert from element idx on, with counter n
attempt_code_insert_loop(T, code, idx, n) ==
    IF idx > Len(T.els)
    THEN IF n = 0 THEN [inserted |-> TRUE, new |-> CodeBlock(Append(T.els, code))]
         ELSE [inserted |-> FALSE, new |-> T]
    ELSE IF n = 0
         THEN [inserted |-> TRUE,
               new |-> CodeBlock(SubSeq(T.els, 1, idx - 1) \o <<code>>
                                 \o SubSeq(T.els, idx, Len(T.els)))]
         ELSE LET el == T.els[idx]
              IN  IF el.blk
                  THEN LET r == attempt_code_insert(el, code, n - 1)
                       IN  IF r.inserted
                           THEN [inserted |-> TRUE,
                                 new |-> CodeBlock([T.els EXCEPT ![idx] = r.new])]
                           ELSE attempt_code_insert_loop(T, code, idx + 1,
                                                         (n - (size(el) + 1)) - 1)
                  ELSE attempt_code_insert_loop(T, code, idx + 1, n - 1)

\* _attempt_code_insert counting the first slot as 1 instead of 0
attempt_code_insert_OffByOne(T, code, index) == attempt_code_insert_loop(T, code, 1, index - 1)

attempt_code_insert(T, code, index) == attempt_code_insert_loop(T, code, 1, index)

with_code_inserted_at_point(T, code, index) ==
    IF index > size(T) THEN CodeBlock(Append(T.els, code))
    ELSE attempt_code_insert(T, code, index).new

(***************************************************************************)
(* Idle values of the parts a specification does not exercise              *)
(***************************************************************************)
altIdle ==
    /\ apc = "idle" /\ parent_1 = <<>> /\ parent_2 = <<>> /\ max_points = 0
    /\ alternation_rate = 0 /\ alignment_deviation = 0 /\ first_parent_1 = TRUE
    /\ use_parent_1 = TRUE /\ loop_times = 0 /\ i = 0 /\ resulting_genome = <<>>
    /\ last_read = <<0, 1>>

closeIdle ==
    /\ cpc = "idle" /\ genome = <<>> /\ close_marker = FALSE
    /\ uniform_close_mutation_rate = 0 /\ close_increment_rate = 0 /\ new_genome = <<>>

genIdle ==
    /\ gpc = "idle" /\ population_size = 0 /\ probabilities = <<>> /\ half_even = TRUE
    /\ parallel_genetics = FALSE /\ max_workers = 0 /\ ncpus = 1
    /\ num_offspring_each_gen_op = <<>> /\ aprox_num_individuals_per_job = 0
    /\ keys_left = {} /\ cur_op = "none" /\ gi = 0 /\ jobs_n = <<>> /\ jobs_ops = <<>>
    /\ offspring = <<>>

\* Atoms handed to with_code_inserted_at_point
Codes == {Leaf(1), Leaf(2), CodeBlock(<<>>)}

atomIdle == /\ tree = CodeBlock(<<>>) /\ op = "none" /\ recv = None
            /\ arg_code = None /\ arg_index = 0 /\ ret = None /\ ret_n = 0

InitAtoms == atomIdle /\ altIdle /\ closeIdle /\ genIdle

Size ==
    /\ op' = "size" /\ recv' = tree /\ ret_n' = size(tree)
    /\ UNCHANGED <<tree, arg_code, arg_index, ret, altVars, closeVars, genVars>>

Depth ==
    /\ op' = "depth" /\ recv' = tree /\ ret_n' = depth(tree)
    /\ UNCHANGED <<tree, arg_code, arg_index, ret, altVars, closeVars, genVars>>

CodeAtPoint(ndx) ==
    /\ op' = "code_at_point" /\ recv' = tree /\ arg_index' = ndx
    /\ ret' = code_at_point(tree, ndx)
    /\ UNCHANGED <<tree, arg_code, ret_n, altVars, closeVars, genVars>>

\* the caller keeps the returned CodeBlock; the receiver stays as it was
WithCodeInsertedAtPoint(code, index) ==
    /\ size(tree) + 1 <= MaxSize
    /\ op' = "with_code_inserted_at_point" /\ recv' = tree
    /\ arg_code' = code /\ arg_index' = index
    /\ ret' = with_code_inserted_at_point(tree, code, index)
    /\ tree' = ret'
    /\ UNCHANGED <<ret_n, altVars, closeVars, genVars>>

NextAtoms ==
    \/ Size
    \/ Depth
    \/ \E ndx \in 0..(size(tree) + 1) : CodeAtPoint(ndx)
    \/ \E code \in Codes, index \in 0..(size(tree) + 1) : WithCodeInsertedAtPoint(code, index)

SpecAtoms == InitAtoms /\ [][NextAtoms]_vars

(***************************************************************************)
(* Genes and random draws (operators.py)                                   *)
(***************************************************************************)
\* a Plush gene: (instruction, is_literal, closes, silent)
Gene(instr, lit, closes, silent) ==
    [instr |-> instr, is_literal |-> lit, closes |-> closes, silent |-> silent]

\* Rates are percentages: 0 is 0.0, 50 is 0.5, 100 is 1.0
Rates == {0, 50, 100}

\* outcomes of `random.random() <= rate`
Draws_Inclusive(rate) == {b \in BOOLEAN : (b => rate >= 0) /\ (~b => rate < 100)}

\* possible outcomes of `random.random() < rate`, random() being in [0, 1)
Draws(rate) == {b \in BOOLEAN : (b => rate > 0) /\ (~b => rate < 100)}

Max(a, b) == IF a >= b THEN a ELSE b

(***************************************************************************)
(* alternation(parent_1, parent_2, evo_params)                             *)
(***************************************************************************)
\* the n-gene genome of parent p; all genes are distinct
ParentGenome(p, n) == [j \in 1..n |-> Gene(10 * p + j, j % 2 = 0, j % 2, FALSE)]

\* largest |round(alignment_deviation * gaussian_noise_factor())| drawn
MaxJump == MaxLen + 1

\* round(alignment_deviation * gaussian_noise_factor())
Offsets(deviation) == IF deviation = 0 THEN {0} ELSE -MaxJump..MaxJump

\* lines 44-46: loop_times for the parent picked by the coin flip
InitialLoopTimes(use_1) == IF use_1 THEN Len(parent_1) ELSE Len(parent_2)

\* the stop condition left as it was after a switch of parents
LoopTimes_Stale(use_1) == loop_times

\* lines 64-66: loop_times for the parent now being read
LoopTimes(use_1) == IF use_1 THEN Len(parent_1) ELSE Len(parent_2)

\* the while condition without the max_points test
LoopCond_NoCap == i < loop_times

\* the while condition
LoopCond == (i < loop_times) /\ (Len(resulting_genome) < max_points)

InitAlt ==
    /\ atomIdle /\ closeIdle /\ genIdle
    /\ apc = "start"
    /\ parent_1 \in {ParentGenome(1, n) : n \in 0..MaxLen}
    /\ parent_2 \in {ParentGenome(2, n) : n \in 0..MaxLen}
    /\ max_points \in 0..MaxLen
    /\ alternation_rate \in Rates
    /\ alignment_deviation \in {0, 10}
    /\ first_parent_1 = TRUE /\ use_parent_1 = TRUE /\ loop_times = 0 /\ i = 0
    /\ resulting_genome = <<>> /\ last_read = <<0, 1>>

altParams == <<parent_1, parent_2, max_points, alternation_rate, alignment_deviation>>

\* lines 39-48: the initial coin flip
AltStart ==
    /\ apc = "start"
    /\ \E b \in BOOLEAN :
          /\ first_parent_1' = b /\ use_parent_1' = b
          /\ loop_times' = InitialLoopTimes(b)
    /\ resulting_genome' = <<>> /\ i' = 0
    /\ apc' = "loop"
    /\ UNCHANGED <<altParams, last_read, atomVars, closeVars, genVars>>

\* lines 50-54, 64-66: switch the parent the genes are pulled from
AltJump(o) ==
    /\ apc = "loop" /\ LoopCond
    /\ TRUE \in Draws(alternation_rate)
    /\ o \in Offsets(alignment_deviation)
    /\ i' = Max(0, i + o)
    /\ use_parent_1' = ~use_parent_1
    /\ loop_times' = LoopTimes(use_parent_1')
    /\ UNCHANGED <<apc, altParams, first_parent_1, resulting_genome, last_read,
                   atomVars, closeVars, genVars>>

\* lines 55-61, 64-66: pull a gene from the parent; parent[i] raises
\* IndexError when i is past its end
AltCopy ==
    /\ apc = "loop" /\ LoopCond
    /\ FALSE \in Draws(alternation_rate)
    /\ LET parent == IF use_parent_1 THEN parent_1 ELSE parent_2
       IN  /\ last_read' = <<i, Len(parent)>>
           /\ IF i < Len(parent)
              THEN /\ resulting_genome' = Append(resulting_genome, parent[i + 1])
                   /\ i' = i + 1
                   /\ loop_times' = LoopTimes(use_parent_1)
                   /\ apc' = "loop"
              ELSE /\ apc' = "error"
                   /\ UNCHANGED <<resulting_genome, i, loop_times>>
    /\ UNCHANGED <<altParams, first_parent_1, use_parent_1, atomVars, closeVars, genVars>>

\* line 68: the loop condition fails and the genome is returned
AltReturn ==
    /\ apc = "loop" /\ ~LoopCond
    /\ apc' = "done"
    /\ UNCHANGED <<altParams, first_parent_1, use_parent_1, loop_times, i,
                   resulting_genome, last_read, atomVars, closeVars, genVars>>

NextAlt ==
    \/ AltStart
    \/ \E o \in -MaxJump..MaxJump : AltJump(o)
    \/ AltCopy
    \/ AltReturn

SpecAlt == InitAlt /\ [][NextAlt]_vars

\* every step that stays enabled is eventually taken: each random outcome
\* (copy, or a jump by any given offset) has positive probability whenever
\* it is possible at all
FairSpecAlt ==
    /\ SpecAlt
    /\ WF_vars(AltStart) /\ WF_vars(AltCopy) /\ WF_vars(AltReturn)
    /\ \A o \in -MaxJump..MaxJump : WF_vars(AltJump(o))

(***************************************************************************)
(* uniform_close_mutation(genome, evo_params)                              *)
(***************************************************************************)
\* close_mutator decrementing without the `closes == 0` test
close_mutator_NoFloor(gene, change, increment) ==
    LET closes == gene.closes
        new_closes == IF change
                      THEN IF increment THEN closes + 1 ELSE closes - 1
                      ELSE closes
    IN  Gene(gene.instr, gene.is_literal, new_closes, gene.silent)

\* change and increment are the outcomes of the two random draws
close_mutator(gene, change, increment) ==
    LET closes == gene.closes
        new_closes == IF change
                      THEN IF increment THEN closes + 1
                           ELSE IF closes = 0 THEN 0 ELSE closes - 1
                      ELSE closes
    IN  Gene(gene.instr, gene.is_literal, new_closes, gene.silent)

\* input genes: an instruction gene and a silent literal gene, any close count
CloseGenes == {Gene(1, FALSE, c, FALSE) : c \in 0..MaxCloses}
              \cup {Gene(5, TRUE, c, TRUE) : c \in 0..MaxCloses}

Genomes == UNION {[1..n -> CloseGenes] : n \in 0..MaxGenes}

InitClose ==
    /\ atomIdle /\ altIdle /\ genIdle
    /\ cpc = "run"
    /\ genome \in Genomes
    /\ close_marker \in BOOLEAN     \* "_close" in evo_params["epigenetic_markers"]
    /\ uniform_close_mutation_rate \in Rates
    /\ close_increment_rate \in Rates
    /\ new_genome = <<>>

closeParams == <<genome, close_marker, uniform_close_mutation_rate, close_increment_rate>>

\* lines 170-171: without the marker the genome is returned as it is
CloseReturnUnchanged ==
    /\ cpc = "run" /\ ~close_marker
    /\ new_genome' = genome
    /\ cpc' = "done"
    /\ UNCHANGED <<closeParams, atomVars, altVars, genVars>>

\* line 172: the next gene of the list comprehension
CloseMutateGene ==
    /\ cpc = "run" /\ close_marker
    /\ Len(new_genome) < Len(genome)
    /\ \E change \in Draws(uniform_close_mutation_rate) :
       \E increment \in (IF change THEN Draws(close_increment_rate) ELSE {FALSE}) :
          new_genome' = Append(new_genome,
                               close_mutator(genome[Len(new_genome) + 1], change, increment))
    /\ UNCHANGED <<cpc, closeParams, atomVars, altVars, genVars>>

\* line 172: the comprehension is exhausted and the list is returned
CloseReturn ==
    /\ cpc = "run" /\ close_marker
    /\ Len(new_genome) = Len(genome)
    /\ cpc' = "done"
    /\ UNCHANGED <<new_genome, closeParams, atomVars, altVars, genVars>>

NextClose == CloseReturnUnchanged \/ CloseMutateGene \/ CloseReturn

SpecClose == InitClose /\ [][NextClose]_vars

(***************************************************************************)
(* genetics(population, evolutionary_params)                               *)
(* Selection and Individual are external collaborators: a child is         *)
(* represented by the operator key that produced it.                       *)
(***************************************************************************)
Keys == {"alternation", "uniform_mutation"}

\* round(num / den) for num >= 0, den > 0: ties go to the even neighbour
\* (Python 3) or away from zero (Python 2)
Round(num, den, ties_even) ==
    LET q == num \div den
        r == num % den
    IN  IF 2 * r < den THEN q
        ELSE IF 2 * r > den THEN q + 1
        ELSE IF ties_even /\ q % 2 = 0 THEN q ELSE q + 1

\* line 235; probabilities are held in tenths
NumOffspring(k) == Round(probabilities[k] * population_size, 10, half_even)

\* line 237; max_workers = 0 stands for None
ParallelMode == parallel_genetics /\ (max_workers = 0 \/ max_workers > 1)

\* produce_n_children: n children, each by produce_child(population, k, params)
produce_n_children(n, k) == [x \in 1..n |-> k]

RECURSIVE pool_map(_)
\* lines 258-265: the job results concatenated, from job j on
pool_map(j) ==
    IF j > Len(jobs_n) THEN <<>>
    ELSE produce_n_children(jobs_n[j], jobs_ops[j]) \o pool_map(j + 1)

\* lines 249-256: the size of the next job carved off a remaining quota n
JobSize(n) ==
    IF n < aprox_num_individuals_per_job THEN n ELSE aprox_num_individuals_per_job

InitGen ==
    /\ atomIdle /\ altIdle /\ closeIdle
    /\ gpc = "start"
    /\ \E t \in 0..10 :
          /\ probabilities = [k \in Keys |-> IF k = "alternation" THEN t ELSE 10 - t]
          /\ \/ population_size \in 1..MaxPop
             \/ population_size = 100 /\ t = 7
    /\ half_even \in BOOLEAN
    /\ parallel_genetics \in BOOLEAN
    /\ max_workers \in {0, 1, 2}
    /\ ncpus \in 1..MaxCpus
    /\ num_offspring_each_gen_op = [k \in Keys |-> 0]
    /\ aprox_num_individuals_per_job = 0
    /\ keys_left = {} /\ cur_op = "none" /\ gi = 0
    /\ jobs_n = <<>> /\ jobs_ops = <<>> /\ offspring = <<>>

genParams == <<population_size, probabilities, half_even, parallel_genetics, max_workers, ncpus>>

\* lines 233-244: quotas, then the mode; pool.ncpus = 1 divides by zero
GenStart ==
    /\ gpc = "start"
    /\ num_offspring_each_gen_op' = [k \in Keys |-> NumOffspring(k)]
    /\ keys_left' = Keys
    /\ IF ParallelMode
       THEN IF ncpus - 1 = 0
            THEN gpc' = "error" /\ UNCHANGED aprox_num_individuals_per_job
            ELSE /\ gpc' = "partition"
                 /\ aprox_num_individuals_per_job' = population_size \div (ncpus - 1)
       ELSE gpc' = "sequential" /\ UNCHANGED aprox_num_individuals_per_job
    /\ UNCHANGED <<genParams, cur_op, gi, jobs_n, jobs_ops, offspring,
                   atomVars, altVars, closeVars>>

\* lines 246-247: the next operator key and its quota
GenNextOp ==
    /\ gpc = "partition" /\ gi = 0 /\ keys_left # {}
    /\ \E k \in keys_left :
          /\ cur_op' = k
          /\ gi' = num_offspring_each_gen_op[k]
          /\ keys_left' = keys_left \ {k}
    /\ UNCHANGED <<gpc, genParams, num_offspring_each_gen_op, aprox_num_individuals_per_job,
                   jobs_n, jobs_ops, offspring, atomVars, altVars, closeVars>>

\* lines 248-256: one round of `while i > 0`
GenCarveJob ==
    /\ gpc = "partition" /\ gi > 0
    /\ Len(jobs_n) < MaxJobs
    /\ jobs_n' = Append(jobs_n, JobSize(gi))
    /\ jobs_ops' = Append(jobs_ops, cur_op)
    /\ gi' = gi - JobSize(gi)
    /\ UNCHANGED <<gpc, genParams, num_offspring_each_gen_op, aprox_num_individuals_per_job,
                   keys_left, cur_op, offspring, atomVars, altVars, closeVars>>

\* lines 258-265, 274: the jobs are run and their results returned
GenDispatch ==
    /\ gpc = "partition" /\ gi = 0 /\ keys_left = {}
    /\ offspring' = offspring \o pool_map(1)
    /\ gpc' = "done"
    /\ UNCHANGED <<genParams, num_offspring_each_gen_op, aprox_num_individuals_per_job,
                   keys_left, cur_op, gi, jobs_n, jobs_ops, atomVars, altVars, closeVars>>

\* the inner `for i in range(...)` has nothing left (or has not begun)
SeqOpDone == IF cur_op = "none" THEN TRUE ELSE gi >= num_offspring_each_gen_op[cur_op]

\* line 269: the next operator key
GenSeqNextOp ==
    /\ gpc = "sequential" /\ SeqOpDone /\ keys_left # {}
    /\ \E k \in keys_left :
          /\ cur_op' = k
          /\ keys_left' = keys_left \ {k}
    /\ gi' = 0
    /\ UNCHANGED <<gpc, genParams, num_offspring_each_gen_op, aprox_num_individuals_per_job,
                   jobs_n, jobs_ops, offspring, atomVars, altVars, closeVars>>

\* lines 271-272: one child by produce_child(population, op, params)
GenProduceChild ==
    /\ gpc = "sequential" /\ ~SeqOpDone
    /\ offspring' = Append(offspring, cur_op)
    /\ gi' = gi + 1
    /\ UNCHANGED <<gpc, genParams, num_offspring_each_gen_op, aprox_num_individuals_per_job,
                   keys_left, cur_op, jobs_n, jobs_ops, atomVars, altVars, closeVars>>

\* line 274
GenSeqReturn ==
    /\ gpc = "sequential" /\ SeqOpDone /\ keys_left = {}
    /\ gpc' = "done"
    /\ UNCHANGED <<genParams, num_offspring_each_gen_op, aprox_num_individuals_per_job,
                   keys_left, cur_op, gi, jobs_n, jobs_ops, offspring,
                   atomVars, altVars, closeVars>>

NextGen ==
    \/ GenStart
    \/ GenNextOp
    \/ GenCarveJob
    \/ GenDispatch
    \/ GenSeqNextOp
    \/ GenProduceChild
    \/ GenSeqReturn

SpecGen == InitGen /\ [][NextGen]_vars

(***************************************************************************)
(* Claims about CodeBlock (checked under SpecAtoms)                        *)
(***************************************************************************)
RECURSIVE RemovePoint(_, _, _), InsertBeforePoint(_, _, _, _)
\* T without the atom at depth-first point n >= 1, scanning from element j
RemovePoint(T, j, n) ==
    IF j > Len(T.els) THEN T
    ELSE LET el == T.els[j]
         IN  IF n = 1
             THEN CodeBlock(SubSeq(T.els, 1, j - 1) \o SubSeq(T.els, j + 1, Len(T.els)))
             ELSE IF el.blk /\ n - 1 <= size(el)
                  THEN CodeBlock([T.els EXCEPT ![j] = RemovePoint(el, 1, n - 1)])
                  ELSE RemovePoint(T, j + 1, n - 1 - (IF el.blk THEN size(el) ELSE 0))

\* T with code placed directly before the atom at depth-first point n >= 1,
\* in the block that holds that atom
InsertBeforePoint(T, code, j, n) ==
    IF j > Len(T.els) THEN T
    ELSE LET el == T.els[j]
         IN  IF n = 1
             THEN CodeBlock(SubSeq(T.els, 1, j - 1) \o <<code>>
                            \o SubSeq(T.els, j, Len(T.els)))
             ELSE IF el.blk /\ n - 1 <= size(el)
                  THEN CodeBlock([T.els EXCEPT ![j] = InsertBeforePoint(el, code, 1, n - 1)])
                  ELSE InsertBeforePoint(T, code, j + 1,
                                         n - 1 - (IF el.blk THEN size(el) ELSE 0))

\* no element of T is a CodeBlock
IsFlat(T) == \A j \in 1..Len(T.els) : ~T.els[j].blk

\* C3 as stated: code_at_point(0) returns the receiver, and
\* code_at_point(size(T)) returns no atom.
C3_PointSizeOutOfRange ==
    op = "code_at_point" =>
        /\ (arg_index = 0 => ret = recv)
        /\ (arg_index = size(recv) => ret = None)

\* C3 amended: code_at_point(0) returns the receiver; the points run from 0
\* to size(T), so code_at_point(size(T)) returns an atom, and the first index
\* that returns no atom is size(T) + 1.
C3_PointsRunToSize ==
    op = "code_at_point" =>
        /\ (arg_index = 0 => ret = recv)
        /\ (arg_index = size(recv) => ret # None)
        /\ (arg_index = size(recv) + 1 => ret = None)

C3_Witness ==
    /\ op = "code_at_point" /\ ~IsFlat(recv) /\ size(recv) >= 3
    /\ arg_index = size(recv) /\ ret # None /\ ret # recv

\* the case C4 is about: an insertion at an index k with 1 <= k <= size(T)
InsertInRange ==
    op = "with_code_inserted_at_point" /\ arg_index >= 1 /\ arg_index <= size(recv)

\* C4 as stated: for 1 <= k <= size(T) the result is T with the atom placed
\* directly before the atom code_at_point(k) addresses, in the same block.
C4_InsertedBeforePoint ==
    InsertInRange => ret = InsertBeforePoint(recv, arg_code, 1, arg_index)

\* C4 amended: for 1 <= k <= size(T) the result is T with the atom added as
\* one new element (taking it out again gives T back), at a depth-first point
\* p of the result with 2 <= p <= k + 1; when T holds no nested block the atom
\* becomes element k + 1 of the list, directly after the atom
\* code_at_point(k) addresses.
C4_InsertedInSlot ==
    InsertInRange =>
        /\ \E p \in 2..(arg_index + 1) :
              /\ code_at_point(ret, p) = arg_code
              /\ RemovePoint(ret, 1, p) = recv
        /\ IsFlat(recv) =>
              ret = CodeBlock(SubSeq(recv.els, 1, arg_index) \o <<arg_code>>
                              \o SubSeq(recv.els, arg_index + 1, Len(recv.els)))

C4_Witness ==
    /\ InsertInRange /\ ~IsFlat(recv) /\ arg_index >= 2 /\ arg_index < size(recv)
    /\ ret # InsertBeforePoint(recv, arg_code, 1, arg_index)

\* C6 as stated: a block whose elements are all non-block atoms has size()
\* equal to its number of elements and depth() equal to 0.
C6_FlatDepthZero ==
    /\ (op = "size" /\ IsFlat(recv)) => ret_n = Len(recv.els)
    /\ (op = "depth" /\ IsFlat(recv)) => ret_n = 0

\* C6 amended: a block whose elements are all non-block atoms has size()
\* equal to its number of elements, and depth() equal to 1 when it has at
\* least one element and to 0 only when it is empty.
C6_FlatDepthOne ==
    /\ (op = "size" /\ IsFlat(recv)) => ret_n = Len(recv.els)
    /\ (op = "depth" /\ IsFlat(recv)) => ret_n = (IF Len(recv.els) = 0 THEN 0 ELSE 1)

C6_Witness ==
    /\ op = "depth" /\ recv = CodeBlock(<<Leaf(1), Leaf(2)>>) /\ ret_n = 1
    /\ size(recv) = 2

(***************************************************************************)
(* Claims about alternation (checked under SpecAlt, C10 under FairSpecAlt) *)
(***************************************************************************)
\* C1: the genome built by alternation never holds more than max_points
\* genes, whatever the coin flips, jump/copy choices and offsets.
C1_LengthWithinMaxPoints == Len(resulting_genome) <= max_points

C1_Witness ==
    /\ apc = "done" /\ max_points >= 2 /\ Len(resulting_genome) = max_points
    /\ i < loop_times /\ use_parent_1 # first_parent_1

Min(a, b) == IF a <= b THEN a ELSE b

\* the parent picked by the initial coin flip
ChosenParent == IF first_parent_1 THEN parent_1 ELSE parent_2

\* C5 as stated: with alternation_rate = 0 the returned genome equals the
\* parent picked by the initial coin flip, for every max_points.
C5_RateZeroReturnsParent ==
    (apc = "done" /\ alternation_rate = 0) => resulting_genome = ChosenParent

\* C5 amended: with alternation_rate = 0 the returned genome is the first
\* min(len(parent), max_points) genes of the parent picked by the initial
\* coin flip: the whole parent only when it has at most max_points genes.
C5_RateZeroReturnsPrefix ==
    (apc = "done" /\ alternation_rate = 0) =>
        resulting_genome = SubSeq(ChosenParent, 1, Min(Len(ChosenParent), max_points))

C5_Witness ==
    /\ apc = "done" /\ alternation_rate = 0 /\ alignment_deviation > 0
    /\ ~first_parent_1 /\ Len(parent_2) = 3 /\ max_points = 2
    /\ resulting_genome = SubSeq(parent_2, 1, 2)

\* C9: every copy reads an index i with 0 <= i < length of the parent being
\* read; no copy raises IndexError.
C9_CopyReadsInsideParent ==
    /\ apc # "error"
    /\ last_read[1] >= 0 /\ last_read[1] < last_read[2]

C9_Witness ==
    /\ Len(resulting_genome) >= 2 /\ use_parent_1 # first_parent_1
    /\ Len(parent_1) # Len(parent_2)
    /\ last_read[1] >= 1 /\ last_read[1] = last_read[2] - 1
    /\ i = last_read[2]

\* C10: the alternation loop eventually terminates, for every
\* alternation_rate in [0, 1] and every alignment_deviation >= 0.
C10_AlternationTerminates == <>(apc = "done")

(***************************************************************************)
(* Claims about uniform_close_mutation (checked under SpecClose)           *)
(***************************************************************************)
\* C7: with the close marker active every gene with close count c becomes a
\* gene with close count c, c + 1 or max(c - 1, 0), never negative, its
\* other fields kept; the genome keeps its length; with
\* uniform_close_mutation_rate = 1 and close_increment_rate = 0 the close
\* count becomes max(c - 1, 0).
C7_CloseCountStep ==
    close_marker =>
        /\ Len(new_genome) <= Len(genome)
        /\ cpc = "done" => Len(new_genome) = Len(genome)
        /\ \A j \in 1..Len(new_genome) :
              LET c == genome[j].closes
                  g == new_genome[j]
              IN  /\ g.closes \in {c, c + 1, Max(c - 1, 0)}
                  /\ g.closes >= 0
                  /\ g.instr = genome[j].instr
                  /\ g.is_literal = genome[j].is_literal
                  /\ g.silent = genome[j].silent
                  /\ (uniform_close_mutation_rate = 100 /\ close_increment_rate = 0)
                        => g.closes = Max(c - 1, 0)

C7_Witness ==
    /\ cpc = "done" /\ close_marker
    /\ uniform_close_mutation_rate = 100 /\ close_increment_rate = 0
    /\ Len(genome) = 2
    /\ genome[1].closes = 3 /\ new_genome[1].closes = 2
    /\ genome[2].closes = 0 /\ new_genome[2].closes = 0

(***************************************************************************)
(* Claims about genetics (checked under SpecGen)                           *)
(***************************************************************************)
\* number of children in seq produced with key k
ChildrenOf(seq, k) == Cardinality({j \in 1..Len(seq) : seq[j] = k})

RECURSIVE JobTotal(_, _)
\* sum of the sizes of the jobs for key k, from job j on
JobTotal(j, k) ==
    IF j > Len(jobs_n) THEN 0
    ELSE (IF jobs_ops[j] = k THEN jobs_n[j] ELSE 0) + JobTotal(j + 1, k)

\* C2: genetics produces exactly round(p_k * population_size) children with
\* every key k; in parallel mode every job is positive and at most the
\* per-job share, and the jobs of k sum to its quota.
C2_QuotaExact ==
    /\ \A j \in 1..Len(jobs_n) :
          jobs_n[j] > 0 /\ jobs_n[j] <= aprox_num_individuals_per_job
    /\ gpc = "done" =>
          \A k \in Keys :
             /\ ChildrenOf(offspring, k) = NumOffspring(k)
             /\ ParallelMode => JobTotal(1, k) = NumOffspring(k)

\* C8: in parallel mode with ncpus >= 2 the partition loop terminates with
\* i = 0.  The loop body is a function of i and the constant per-job share,
\* so it terminates exactly when every round leaves i smaller than it found it.
C8_PartitionLoopTerminates ==
    [][(gpc = "partition" /\ ncpus >= 2 /\ gi > 0) => gi' < gi]_vars

====
